---- MODULE Spec2Model ----
(***************************************************************************)
(* AREIA: Artificial Redshift Effects for IA.                              *)
(*                                                                         *)
(* A model of the ArtificialRedshift pipeline of areia.py (the stages the  *)
(* constructor runs, crop_for_network and writeto) and of the background   *)
(* samplers of background.py (find_bg_section, find_bg_coords and the      *)
(* rejection-sampling search find_bg_section_from_goodss).                 *)
(*                                                                         *)
(* Arrays are records [shape |-> <<rows, cols>>, pix |-> [index -> value]] *)
(* with 0-based indices, as in numpy.  Pixel values and scalar factors are *)
(* exact rationals extended with the IEEE specials the code can produce    *)
(* (NaN, +Inf, -Inf); rounding error of binary floating point is not       *)
(* modelled.                                                               *)
(***************************************************************************)
EXTENDS Integers, Sequences, FiniteSets, TLC

(***************************************************************************)
(* Numbers: <<n, d>> with d > 0 and gcd(n, d) = 1 is the rational n/d;     *)
(* <<0, 0>> is NaN, <<1, 0>> is +Inf and <<-1, 0>> is -Inf.                *)
(***************************************************************************)
Abs(x) == IF x < 0 THEN -x ELSE x

Sign(x) == IF x < 0 THEN -1 ELSE IF x > 0 THEN 1 ELSE 0

RECURSIVE Gcd(_, _)
Gcd(a, b) == IF b = 0 THEN a ELSE Gcd(b, a % b)

Norm(n, d) ==
    IF d = 0 THEN <<Sign(n), 0>>
    ELSE LET g == Gcd(Abs(n), Abs(d))
         IN  IF d < 0 THEN <<(-n) \div g, (-d) \div g>> ELSE <<n \div g, d \div g>>

R(k) == <<k, 1>>

Q(n, d) == Norm(n, d)

NaN == <<0, 0>>

PosInf == <<1, 0>>

NegInf == <<-1, 0>>

IsNaN(x) == x = NaN

IsFinite(x) == x[2] # 0

Mul(x, y) == Norm(x[1] * y[1], x[2] * y[2])

Add(x, y) ==
    IF x[2] = 0 /\ y[2] = 0
    THEN IF x = y THEN x ELSE NaN
    ELSE Norm(x[1] * y[2] + y[1] * x[2], x[2] * y[2])

Neg(x) == <<-x[1], x[2]>>

Sub(x, y) == Add(x, Neg(y))

\* 1/x as numpy float64 computes it: 1/0 is +Inf, 1/Inf is 0, 1/NaN is NaN.
Inv(x) ==
    IF x[1] = 0 THEN (IF x[2] = 0 THEN NaN ELSE PosInf)
    ELSE IF x[1] > 0 THEN <<x[2], x[1]>> ELSE <<-x[2], -x[1]>>

\* x/y as numpy float64 computes it (a RuntimeWarning, never an exception):
\* 0/0 is NaN and a/0 is +-Inf.
Div(x, y) == Mul(x, Inv(y))

\* x < y; every comparison with NaN is false.
Less(x, y) ==
    IF IsNaN(x) \/ IsNaN(y) THEN FALSE
    ELSE IF x[2] = 0 /\ y[2] = 0 THEN x[1] < y[1]
    ELSE x[1] * y[2] < y[1] * x[2]

Leq(x, y) == ~IsNaN(x) /\ ~IsNaN(y) /\ ~Less(y, x)

AbsR(x) == <<Abs(x[1]), x[2]>>

\* floor of a finite rational
Floor(x) == x[1] \div x[2]

\* Python's int(): truncation toward zero
Trunc(x) == IF x[1] >= 0 THEN x[1] \div x[2] ELSE -((-x[1]) \div x[2])

\* Python's round(): round half to even
RoundHalfEven(x) ==
    LET f == Floor(x)
        r == Sub(x, R(f))
    IN  IF Less(r, Q(1, 2)) THEN f
        ELSE IF Less(Q(1, 2), r) THEN f + 1
        ELSE IF f % 2 = 0 THEN f ELSE f + 1

(***************************************************************************)
(* Arrays (numpy.ndarray, two-dimensional).                                *)
(***************************************************************************)
Idx(r, c) == (0 .. r - 1) \X (0 .. c - 1)

\* the array [[F(0,0), F(0,1), ...], ...] of shape (r, c).  (Combining the
\* function with the empty one makes TLC evaluate every element once.)
MkArr(r, c, F(_, _)) ==
    [shape |-> <<r, c>>, pix |-> [p \in Idx(r, c) |-> F(p[1], p[2])] @@ <<>>]

Rows(a) == a.shape[1]

Cols(a) == a.shape[2]

MapArr(a, F(_)) ==
    [shape |-> a.shape, pix |-> [p \in DOMAIN a.pix |-> F(a.pix[p])] @@ <<>>]

RECURSIVE SumSeq(_, _, _)
SumSeq(a, ps, acc) ==
    IF ps = <<>> THEN acc ELSE SumSeq(a, Tail(ps), Add(acc, a.pix[Head(ps)]))

RECURSIVE IdxSeq(_, _, _)
IdxSeq(r, c, k) ==
    IF k >= r * c THEN <<>> ELSE <<(<<k \div c, k % c>>)>> \o IdxSeq(r, c, k + 1)

\* ndarray.sum(): NaN and Inf propagate, the empty sum is 0
Sum(a) == SumSeq(a, IdxSeq(Rows(a), Cols(a), 0), R(0))

\* a basic slice start:stop of an axis of length n, as numpy resolves it: a
\* negative bound counts from the end, both bounds are clipped to [0, n]
SliceBound(n, k) ==
    LET j == IF k < 0 THEN k + n ELSE k
    IN  IF j < 0 THEN 0 ELSE IF j > n THEN n ELSE j

SliceLen(n, start, stop) ==
    LET s == SliceBound(n, start)
        e == SliceBound(n, stop)
    IN  IF e > s THEN e - s ELSE 0

\* a[r0:r1, c0:c1]
Slice2(a, r0, r1, c0, c1) ==
    LET rs == SliceBound(Rows(a), r0)
        cs == SliceBound(Cols(a), c0)
    IN  MkArr(SliceLen(Rows(a), r0, r1), SliceLen(Cols(a), c0, c1),
              LAMBDA i, j : a.pix[<<rs + i, cs + j>>])

\* numpy broadcasting of an operand of shape sh into a target of shape tg
Broadcastable(sh, tg) ==
    /\ sh[1] = tg[1] \/ sh[1] = 1
    /\ sh[2] = tg[2] \/ sh[2] = 1

\* a[r0:r1, c0:c1] += b, for b broadcastable to the window
AddInto(a, r0, r1, c0, c1, b) ==
    LET rs == SliceBound(Rows(a), r0)
        cs == SliceBound(Cols(a), c0)
        rn == SliceLen(Rows(a), r0, r1)
        cn == SliceLen(Cols(a), c0, c1)
    IN  MkArr(Rows(a), Cols(a),
              LAMBDA i, j :
                  IF i >= rs /\ i < rs + rn /\ j >= cs /\ j < cs + cn
                  THEN Add(a.pix[<<i, j>>],
                           b.pix[<<IF Rows(b) = 1 THEN 0 ELSE i - rs,
                                   IF Cols(b) = 1 THEN 0 ELSE j - cs>>])
                  ELSE a.pix[<<i, j>>])

(***************************************************************************)
(* zoom_contents: change the scale of the contents on a fixed grid.        *)
(***************************************************************************)
\* in_coords: the k-th coordinate of an axis of length s, k - (s - 1)/2
InCoord(s, k) == Sub(R(k), Q(s - 1, 2))

\* scipy's linear interpolation on one axis of n >= 2 grid points: the cell
\* index i (searchsorted - 1, clipped to [0, n - 2]) and the normalised
\* distance of x from the cell's lower edge.  A NaN sorts after every point.
CellIndex(n, x) ==
    LET below == {k \in 0 .. n - 1 : Less(InCoord(n, k), x)}
        ss == IF IsNaN(x) THEN n ELSE Cardinality(below)
        i == ss - 1
    IN  IF i < 0 THEN 0 ELSE IF i > n - 2 THEN n - 2 ELSE i

NormDist(n, x) == Sub(x, InCoord(n, CellIndex(n, x)))

OutOfBounds(n, x) == Less(x, InCoord(n, 0)) \/ Less(InCoord(n, n - 1), x)

\* interpn(in_coords, image, (x, y), method='linear', bounds_error=False,
\* fill_value=fill)
Interpn(image, x, y, fill) ==
    LET r == Rows(image)
        c == Cols(image)
        i == CellIndex(r, x)
        j == CellIndex(c, y)
        u == NormDist(r, x)
        v == NormDist(c, y)
        w0(t) == Sub(R(1), t)
        term(wi, wj, p) == Mul(Mul(wi, wj), image.pix[p])
    IN  IF OutOfBounds(r, x) \/ OutOfBounds(c, y) THEN fill
        ELSE Add(Add(term(w0(u), w0(v), <<i, j>>), term(w0(u), v, <<i, j + 1>>)),
                 Add(term(u, w0(v), <<i + 1, j>>), term(u, v, <<i + 1, j + 1>>)))

zoom_contents(image, scale, conserve_flux, fill_value) ==
    LET r == Rows(image)
        c == Cols(image)
        out == MkArr(r, c, LAMBDA i, j :
                   Interpn(image, Div(InCoord(r, i), scale), Div(InCoord(c, j), scale),
                           fill_value))
    IN  IF conserve_flux THEN MapArr(out, LAMBDA x : Div(x, Mul(scale, scale))) ELSE out

(***************************************************************************)
(* scipy.ndimage.zoom(input, zoom, order=0, prefilter=True): the output    *)
(* has round(n * zoom) points per axis (Python's round) and output point o *)
(* takes the input point nearest to o * (n_in - 1)/(n_out - 1).            *)
(***************************************************************************)
ZoomLen(n, scale) == RoundHalfEven(Mul(R(n), scale))

ZoomSrc(nin, nout, o) ==
    IF nout <= 1 THEN 0 ELSE Floor(Add(Q(o * (nin - 1), nout - 1), Q(1, 2)))

\* int(round(NaN)) raises ValueError and int(round(Inf)) OverflowError
ZoomRaises(scale) == ~IsFinite(scale)

zoom(image, scale) ==
    LET r == ZoomLen(Rows(image), scale)
        c == ZoomLen(Cols(image), scale)
    IN  MkArr(r, c, LAMBDA i, j :
              image.pix[<<ZoomSrc(Rows(image), r, i), ZoomSrc(Cols(image), c, j)>>])

(***************************************************************************)
(* Bounds of the model.                                                    *)
(***************************************************************************)
\* image axes have MinDim .. MaxDim pixels (interpn needs two grid points)
MinDim == 2

MaxDim == 4

\* supplied background axes have 1 .. MaxBg pixels
MaxBg == 5

\* redshifts are 0 .. MaxZ
MaxZ == 2

\* Config.output_size is 2 .. MaxOutputSize (an even and an odd size; the
\* default, 101, is odd)
MaxOutputSize == 3

(***************************************************************************)
(* Config, ObservationFrame and the external capabilities the stages call. *)
(***************************************************************************)
None == [shape |-> <<>>, pix |-> <<>>]

Unset == <<>>

Toggles ==
    {"add_background", "rebinning", "convolve_with_psf", "make_cutout", "dimming",
     "shot_noise", "size_correction", "evo", "bg_centered", "fixed_grid"}

\* Config.evo_alpha = -0.13
evo_alpha == Q(-13, 100)

\* a Config: the toggles that are on, and the output size
Config(on, size) == [on |-> on, output_size |-> size]

ObservationFrame(redshift, pixelscale, exptime) ==
    [redshift |-> redshift, pixelscale |-> pixelscale, exptime |-> exptime]

\* cosmo.luminosity_distance(z).value for FlatLambdaCDM(H0=70, Om0=0.3), in
\* units of about 3.2 Gpc and rounded (0, 6.6 and 15.5 Gpc at z = 0, 1, 2; a
\* linear continuation beyond): it is 0 at z = 0 and increases with z.
luminosity_distance(z) == IF z = 0 THEN 0 ELSE IF z = 1 THEN 2 ELSE 3 * z - 1

\* _size_correction: (1 + z)**(-0.97), with the exponent rounded to -1
_size_correction(redshift) == Q(1, 1 + redshift)

\* 10**(-0.4 * mag_correction) with mag_correction = MAG - MAG*(1 + z)**alpha:
\* exactly 1 when MAG = 0 or z = 0; for alpha = -0.13 and MAG = -20 it is
\* 4.9 at z = 1 and 11.6 at z = 2 (rounded here to 5 and 12, then 7z - 2).
evo_factor_of(MAG, z) ==
    IF MAG = 0 \/ z = 0 THEN R(1) ELSE IF z = 1 THEN R(5) ELSE R(7 * z - 2)

\* central_segmentation_map(image): a boolean mask of the image's shape, true
\* on the central source: nothing, the central pixel, or every pixel.
central_segmentation_map(image) ==
    {[p \in DOMAIN image.pix |-> k = "all" \/ (k = "centre" /\ p = <<Rows(image) \div 2, Cols(image) \div 2>>)] :
        k \in {"none", "centre", "all"}}

\* astropy.convolution.convolve(array, kernel) with its defaults
\* (boundary='fill', fill_value=0, nan_treatment='interpolate',
\* normalize_kernel=True) for a kernel of odd, symmetric shape: NaN pixels
\* are left out and the kernel renormalised over the rest.
convolve(array, kernel) ==
    LET kr == Rows(kernel) \div 2
        kc == Cols(kernel) \div 2
        val(i, j) == IF <<i, j>> \in DOMAIN array.pix THEN array.pix[<<i, j>>] ELSE R(0)
        taps(i, j) == {q \in DOMAIN kernel.pix : ~IsNaN(val(i + q[1] - kr, j + q[2] - kc))}
        top(i, j) == SumSeq([shape |-> <<>>, pix |->
                               [q \in taps(i, j) |->
                                   Mul(kernel.pix[q], val(i + q[1] - kr, j + q[2] - kc))]],
                            SelectSeq(IdxSeq(Rows(kernel), Cols(kernel), 0),
                                      LAMBDA q : q \in taps(i, j)), R(0))
        bot(i, j) == SumSeq(kernel, SelectSeq(IdxSeq(Rows(kernel), Cols(kernel), 0),
                                              LAMBDA q : q \in taps(i, j)), R(0))
    IN  MkArr(Rows(array), Cols(array), LAMBDA i, j :
              IF bot(i, j) = R(0) THEN array.pix[<<i, j>>] ELSE Div(top(i, j), bot(i, j)))

\* the values one call of numpy's normal generator is taken to return (the
\* same value for every pixel of the call)
NoiseVals == {-1, 0, 1}

\* sqrt(|f * exptime|) * randn / exptime for one pixel f and one draw v: 0
\* where f is 0, NaN where f is NaN, and otherwise any real (here v)
shot_noise_of(f, v) ==
    IF ~IsFinite(f) THEN Mul(AbsR(f), R(v)) ELSE IF f = R(0) THEN R(0) ELSE R(v)

(***************************************************************************)
(* ArtificialRedshift: the state of one instance.                          *)
(***************************************************************************)
VARIABLES
    image,                  \* self.image
    psf,                    \* self.psf
    background_arg,         \* the constructor's argument `background`
    background,             \* self.background
    initial_frame,          \* self.initial_frame
    target_frame,           \* self.target_frame
    MAG,                    \* self.MAG
    bg_position,            \* self.bg_position: Unset (None) or <<x, y>>
    config,                 \* self.config
    final,                  \* self.final
    flux,                   \* self.flux
    scale_factor,           \* self.scale_factor
    size_correction_factor, \* self.size_correction_factor
    dimming_factor,         \* self.dimming_factor
    evo_factor,             \* self.evo_factor
    offset_min,             \* add_background's offset_min
    offset_max,             \* add_background's offset_max
    final_crop,             \* self.final_crop
    hdr,                    \* writeto's header: [cards, history]
    err,                    \* the exception that ended the call, or "none"
    pc                      \* the next stage of __init__, or where the call ended

(***************************************************************************)
(* background.py: the survey data loaded with the module, the call being   *)
(* made and the locals of find_bg_section_from_goodss.                     *)
(***************************************************************************)
VARIABLES
    field_shape,            \* field160[0].data.shape
    sources,                \* source_coords[subset], as pixel positions <<x, y>>
    call,                   \* the function called and its arguments
    bg_coord,               \* bg_coord: Unset (None) or the pixel it maps to
    too_close,              \* the sources of too_close
    LT,                     \* the aperture sum
    light_outside,          \* bg160.data.sum() - LT
    reiterate,
    num_iters,
    sampled                 \* the value the call returned

sampler ==
    <<field_shape, sources, call, bg_coord, too_close, LT, light_outside, reiterate,
      num_iters, sampled>>

inputs == <<image, background_arg, initial_frame, target_frame, MAG, bg_position, config>>

vars ==
    <<image, psf, background_arg, background, initial_frame, target_frame, MAG,
      bg_position, config, final, flux, scale_factor, size_correction_factor,
      dimming_factor, evo_factor, offset_min, offset_max, final_crop, hdr, err, pc,
      sampler>>

On(toggle) == toggle \in config.on

\* background.py takes no part in the life of an ArtificialRedshift instance
NoCall ==
    /\ field_shape = Unset
    /\ sources = Unset
    /\ call = Unset
    /\ bg_coord = Unset
    /\ too_close = Unset
    /\ LT = Unset
    /\ light_outside = Unset
    /\ reiterate = Unset
    /\ num_iters = Unset
    /\ sampled = Unset

\* __init__ up to the first stage
Construct(img, p, bg, f0, f1, mag, pos, cfg) ==
    /\ image = img
    /\ psf = p
    /\ background_arg = bg
    /\ background = bg
    /\ initial_frame = f0
    /\ target_frame = f1
    /\ MAG = mag
    /\ bg_position = pos
    /\ config = cfg
    /\ final = img
    /\ flux = Unset
    /\ scale_factor = Unset
    /\ size_correction_factor = Unset
    /\ dimming_factor = Unset
    /\ evo_factor = Unset
    /\ offset_min = Unset
    /\ offset_max = Unset
    /\ final_crop = None
    /\ hdr = Unset
    /\ err = "none"
    /\ pc = "cutout_source"
    /\ NoCall

\* an exception leaves __init__ (the remaining stages do not run) or a
\* function of background.py
Raise(e) == err' = e /\ pc' = "raised"

Goto(stage) == err' = err /\ pc' = stage

cutout_source ==
    /\ pc = "cutout_source"
    /\ IF On("make_cutout")
       THEN \E segmentation \in central_segmentation_map(image) :
                final' = MkArr(Rows(image), Cols(image), LAMBDA i, j :
                             IF segmentation[<<i, j>>] THEN image.pix[<<i, j>>] ELSE R(0))
       ELSE final' = final
    /\ Goto("geometric_rebinning")
    /\ UNCHANGED <<inputs, sampler, psf, background, flux, scale_factor, size_correction_factor,
                   dimming_factor, evo_factor, offset_min, offset_max, final_crop, hdr>>

\* the scale factor of geometric_rebinning when `rebinning` is on
geometric_scale(f0, f1) ==
    Div(R(luminosity_distance(f0.redshift) * (1 + f1.redshift) * (1 + f1.redshift)
            * f0.pixelscale),
        R(luminosity_distance(f1.redshift) * (1 + f0.redshift) * (1 + f0.redshift)
            * f1.pixelscale))

geometric_rebinning ==
    /\ pc = "geometric_rebinning"
    /\ LET total == Sum(final)
           normed == MapArr(final, LAMBDA x : Div(x, total))
           sf == IF On("rebinning") THEN geometric_scale(initial_frame, target_frame)
                 ELSE R(1)
           scf == IF On("size_correction") THEN _size_correction(target_frame.redshift)
                  ELSE R(1)
           scale == Mul(sf, scf)
           rebinned == IF On("fixed_grid") THEN zoom_contents(normed, scale, FALSE, R(0))
                       ELSE zoom(normed, scale)
           resum == Sum(rebinned)
       IN  /\ flux' = total
           /\ scale_factor' = sf
           /\ size_correction_factor' = scf
           /\ IF ~On("fixed_grid") /\ ZoomRaises(scale)
              THEN /\ Raise(IF IsNaN(scale) THEN "ValueError" ELSE "OverflowError")
                   /\ final' = final
              ELSE /\ Goto("apply_dimming")
                   /\ final' = MapArr(rebinned, LAMBDA x : Mul(Div(x, resum), total))
    /\ UNCHANGED <<inputs, sampler, psf, background, dimming_factor, evo_factor, offset_min,
                   offset_max, final_crop, hdr>>

apply_dimming ==
    /\ pc = "apply_dimming"
    /\ IF On("dimming")
       THEN LET ratio == Div(R(luminosity_distance(initial_frame.redshift)),
                             R(luminosity_distance(target_frame.redshift)))
                factor == Mul(ratio, ratio)
            IN  /\ dimming_factor' = factor
                /\ final' = MapArr(final, LAMBDA x : Mul(x, factor))
       ELSE UNCHANGED <<dimming_factor, final>>
    /\ Goto("evolution_correction")
    /\ UNCHANGED <<inputs, sampler, psf, background, flux, scale_factor, size_correction_factor,
                   evo_factor, offset_min, offset_max, final_crop, hdr>>

evolution_correction ==
    /\ pc = "evolution_correction"
    /\ IF On("evo")
       THEN LET factor == evo_factor_of(MAG, target_frame.redshift)
            IN  /\ evo_factor' = factor
                /\ final' = MapArr(final, LAMBDA x : Mul(x, factor))
       ELSE UNCHANGED <<evo_factor, final>>
    /\ Goto("convolve_psf")
    /\ UNCHANGED <<inputs, sampler, psf, background, flux, scale_factor, size_correction_factor,
                   dimming_factor, offset_min, offset_max, final_crop, hdr>>

convolve_psf ==
    /\ pc = "convolve_psf"
    /\ IF On("convolve_with_psf")
       THEN LET kernel == MapArr(psf, LAMBDA x : Div(x, Sum(psf)))
            IN  /\ psf' = kernel
                /\ final' = convolve(final, kernel)
       ELSE UNCHANGED <<psf, final>>
    /\ Goto("apply_shot_noise")
    /\ UNCHANGED <<inputs, sampler, background, flux, scale_factor, size_correction_factor,
                   dimming_factor, evo_factor, offset_min, offset_max, final_crop, hdr>>

apply_shot_noise ==
    /\ pc = "apply_shot_noise"
    /\ IF On("shot_noise")
       THEN \E v \in NoiseVals :
                final' = MapArr(final, LAMBDA x : Add(x, shot_noise_of(x, v)))
       ELSE final' = final
    /\ Goto("add_background")
    /\ UNCHANGED <<inputs, sampler, psf, background, flux, scale_factor, size_correction_factor,
                   dimming_factor, evo_factor, offset_min, offset_max, final_crop, hdr>>

\* measure_background(final, 2, zeros) followed by numpy.random.normal(0, std,
\* size=shape): a noise field of the given shape (std = 0 gives zeros)
synthetic_background(shape) ==
    {MkArr(shape[1], shape[2], LAMBDA i, j : R(v)) : v \in NoiseVals}

\* the outcomes of _find_bg_section(bg, img, CENTER): the section returned, or
\* the exception raised.  numpy.random.randint(0, n) raises ValueError for
\* n <= 0 and otherwise returns any of 0 .. n - 1.
_find_bg_section(bg, img, CENTER, position) ==
    LET a == Rows(bg)
        b == Cols(bg)
        c == Rows(img)
        d == Cols(img)
        xi == Trunc(Sub(Q(a, 2), Q(c, 2)))
        xf == Trunc(Add(Q(b, 2), Q(d, 2)))
    IN  IF CENTER
        THEN {[err |-> "none", section |-> Slice2(bg, xi, xf, xi, xf)]}
        ELSE IF position = Unset
        THEN IF c <= a /\ d <= b
             THEN IF a - c <= 0 \/ b - d <= 0
                  THEN {[err |-> "ValueError", section |-> None]}
                  ELSE {[err |-> "none", section |-> Slice2(bg, x, x + c, y, y + d)] :
                           x \in 0 .. a - c - 1, y \in 0 .. b - d - 1}
             ELSE {[err |-> "IndexError", section |-> None]}
        ELSE {[err |-> "none",
               section |-> Slice2(bg, position[1], position[1] + c,
                                  position[2], position[2] + d)]}

add_background ==
    /\ pc = "add_background"
    /\ IF On("add_background")
       THEN \E canvas \in (IF background = None
                           THEN {[err |-> "none", section |-> n] :
                                    n \in synthetic_background(final.shape)}
                           ELSE _find_bg_section(background, final, On("bg_centered"),
                                                 bg_position)) :
                IF canvas.err # "none"
                THEN /\ Raise(canvas.err)
                     /\ UNCHANGED <<background, offset_min, offset_max, final>>
                ELSE LET source_shape == final.shape
                         offset == IF source_shape[1] % 2 = 0 THEN 0 ELSE 1
                         omin == Rows(canvas.section) \div 2 - source_shape[1] \div 2
                         omax == Rows(canvas.section) \div 2 + source_shape[1] \div 2 + offset
                         window == <<SliceLen(Rows(canvas.section), omin, omax),
                                     SliceLen(Cols(canvas.section), omin, omax)>>
                     IN  /\ background' = canvas.section
                         /\ offset_min' = omin
                         /\ offset_max' = omax
                         /\ IF Broadcastable(source_shape, window)
                            THEN /\ final' = AddInto(canvas.section, omin, omax, omin, omax,
                                                     final)
                                 /\ Goto("crop_for_network")
                            ELSE /\ final' = final
                                 /\ Raise("ValueError")
       ELSE /\ Goto("crop_for_network")
            /\ UNCHANGED <<background, offset_min, offset_max, final>>
    /\ UNCHANGED <<inputs, sampler, psf, flux, scale_factor, size_correction_factor,
                   dimming_factor, evo_factor, final_crop, hdr>>

crop_for_network ==
    /\ pc = "crop_for_network"
    /\ LET size == config.output_size
           half_size == size \div 2
           xc == Rows(final) \div 2
           yc == Cols(final) \div 2
       IN  final_crop' = IF Rows(final) > size
                         THEN Slice2(final, yc - half_size, yc + half_size,
                                     xc - half_size, xc + half_size)
                         ELSE final
    /\ Goto("constructed")
    /\ UNCHANGED <<inputs, sampler, psf, background, final, flux, scale_factor,
                   size_correction_factor, dimming_factor, evo_factor, offset_min,
                   offset_max, hdr>>

\* the cards writeto puts in the header, in order
header_cards ==
    (IF On("rebinning") THEN <<(<<"REBIN", scale_factor>>)>> ELSE <<>>)
    \o (IF On("dimming") THEN <<(<<"DIM_FACT", dimming_factor>>)>> ELSE <<>>)
    \o (IF On("evo") THEN <<(<<"EVO_FACT", evo_factor>>), (<<"EV_ALPHA", evo_alpha>>)>>
        ELSE <<>>)

header_history ==
    << <<"Image simulated with AREIA: Artificial Redshift Effects for IA">>,
       <<"Source Extracted with Galclean">>,
       <<"From z = ", initial_frame.redshift, " to z = ", target_frame.redshift>>,
       <<"Any issues forward it to leonardo.ferreira@nottingham.ac.uk">>,
       <<"Or seek help at https://github.com/astroferreira/areia">> >>

\* writeto(filepath, data, overwrite) on a constructed instance.  A FITS header
\* refuses a NaN or infinite value (ValueError); fits.writeto refuses to replace
\* an existing file unless overwrite is set (OSError).
writeto ==
    /\ pc = "constructed"
    /\ \E exists \in BOOLEAN, overwrite \in BOOLEAN :
           IF \E k \in 1 .. Len(header_cards) : ~IsFinite(header_cards[k][2])
           THEN err' = "ValueError" /\ pc' = "writeto_raised" /\ hdr' = hdr
           ELSE IF exists /\ ~overwrite
           THEN err' = "OSError" /\ pc' = "writeto_raised" /\ hdr' = hdr
           ELSE /\ hdr' = [cards |-> header_cards, history |-> header_history]
                /\ Goto("written")
    /\ UNCHANGED <<inputs, sampler, psf, background, final, flux, scale_factor,
                   size_correction_factor, dimming_factor, evo_factor, offset_min,
                   offset_max, final_crop>>

(***************************************************************************)
(* background.py                                                           *)
(***************************************************************************)
pipeline ==
    <<image, psf, background_arg, background, initial_frame, target_frame, MAG,
      bg_position, config, final, flux, scale_factor, size_correction_factor,
      dimming_factor, evo_factor, offset_min, offset_max, final_crop, hdr>>

\* no ArtificialRedshift instance takes part in a call of background.py
NoInstance ==
    /\ image = None
    /\ psf = None
    /\ background_arg = None
    /\ background = None
    /\ initial_frame = Unset
    /\ target_frame = Unset
    /\ MAG = Unset
    /\ bg_position = Unset
    /\ config = Unset
    /\ final = None
    /\ flux = Unset
    /\ scale_factor = Unset
    /\ size_correction_factor = Unset
    /\ dimming_factor = Unset
    /\ evo_factor = Unset
    /\ offset_min = Unset
    /\ offset_max = Unset
    /\ final_crop = None
    /\ hdr = Unset

\* random_flips(bg): the array flipped along none, one or both of its axes
random_flips(bg) ==
    {MkArr(Rows(bg), Cols(bg), LAMBDA i, j :
           bg.pix[<<IF ud THEN Rows(bg) - 1 - i ELSE i, IF lr THEN Cols(bg) - 1 - j ELSE j>>]) :
        ud \in BOOLEAN, lr \in BOOLEAN}

\* the offsets find_bg_section and find_bg_coords draw, or the exception
random_offsets(a, b, c, d) ==
    IF c <= a /\ d <= b
    THEN IF a - c <= 0 \/ b - d <= 0
         THEN {[err |-> "ValueError", x |-> 0, y |-> 0]}
         ELSE {[err |-> "none", x |-> x, y |-> y] : x \in 0 .. a - c - 1, y \in 0 .. b - d - 1}
    ELSE {[err |-> "IndexError", x |-> 0, y |-> 0]}

find_bg_section ==
    /\ pc = "find_bg_section"
    /\ \E bg \in random_flips(call.bg) :
           \E o \in random_offsets(Rows(bg), Cols(bg), Rows(call.img), Cols(call.img)) :
               IF o.err # "none"
               THEN Raise(o.err) /\ sampled' = sampled
               ELSE /\ sampled' = Slice2(bg, o.x, o.x + Rows(call.img),
                                         o.y, o.y + Cols(call.img))
                    /\ Goto("returned")
    /\ UNCHANGED <<pipeline, field_shape, sources, call, bg_coord, too_close, LT,
                   light_outside, reiterate, num_iters>>

find_bg_coords ==
    /\ pc = "find_bg_coords"
    /\ \E bg \in random_flips(call.bg) :
           \E o \in random_offsets(Rows(bg), Cols(bg), Rows(call.img), Cols(call.img)) :
               IF o.err # "none"
               THEN Raise(o.err) /\ sampled' = sampled
               ELSE /\ sampled' = <<o.x, Rows(call.img), o.y, Cols(call.img)>>
                    /\ Goto("returned")
    /\ UNCHANGED <<pipeline, field_shape, sources, call, bg_coord, too_close, LT,
                   light_outside, reiterate, num_iters>>

(***************************************************************************)
(* find_bg_section_from_goodss.  A sky coordinate is modelled by the pixel *)
(* <<x, y>> (column, row) the mosaic's WCS maps it to, and a separation in *)
(* arcsec/0.06 by the distance in pixels, compared through its square.     *)
(***************************************************************************)
\* the search draws at most MaxIters candidates that reach the end of the loop
MaxIters == 3

\* the size argument
SurveySize == 5

\* the mosaic has FieldRows rows
FieldRows == 12

Dist2(p, q) == (p[1] - q[1]) * (p[1] - q[1]) + (p[2] - q[2]) * (p[2] - q[2])

\* np.where(distances.value < offset/2)
within_reach(catalog, coord, offset) ==
    {s \in catalog : 4 * Dist2(coord, s) < offset * offset}

\* a strict comparison, distances[within_reach].value < offset/2.5
too_close_strict(catalog, coord, offset) ==
    {s \in within_reach(catalog, coord, offset) : 25 * Dist2(coord, s) < 4 * offset * offset}

\* np.where(distances[within_reach].value <= offset/2.5)
too_close_of(catalog, coord, offset) ==
    {s \in within_reach(catalog, coord, offset) : 25 * Dist2(coord, s) <= 4 * offset * offset}

\* distances.min().value > offset/1.5
nearest_too_far(catalog, coord, offset) ==
    \A s \in catalog : 9 * Dist2(coord, s) > 4 * offset * offset

Ceil(x) == -Floor(Neg(x))

\* Cutout2D(field160[0].data, position, size): NoOverlapError when the window
\* of `size` pixels around the position misses the array on an axis
cutout_raises(coord, size, shape) ==
    \E axis \in {1, 2} :
        LET pos == IF axis = 1 THEN coord[2] ELSE coord[1]
        IN  \/ Ceil(Add(R(pos), Q(size, 2))) < 0
            \/ Ceil(Sub(R(pos), Q(size, 2))) >= shape[axis]

\* the pixel data of the cutout at a coordinate
Cutout2D(coord, size) == [position |-> coord, size |-> size]

\* aperture_photometry of the cutout at a drawn coordinate, and the cutout's
\* sum: the values the mosaic may hold there
Photometry ==
    {[LT |-> R(-1), sum |-> R(0)], [LT |-> R(0), sum |-> R(0)], [LT |-> R(1), sum |-> R(3)],
     [LT |-> R(21), sum |-> R(50)], [LT |-> R(3), sum |-> R(4)], [LT |-> NaN, sum |-> NaN]}

\* the test without its upper limit, LT == 0 or LT > light_outside
photometry_rejects_no_limit(lt, outside) == lt = R(0) \/ Less(outside, lt)

\* LT == 0 or LT > 20 or LT > light_outside
photometry_rejects(lt, outside) == lt = R(0) \/ Less(R(20), lt) \/ Less(outside, lt)

\* entry: offset = size, and the branch on bg_coord
goodss_enter ==
    /\ pc = "find_bg_section_from_goodss"
    /\ IF call.bg_coord = Unset
       THEN /\ reiterate' = TRUE
            /\ num_iters' = 0
            /\ Goto("while")
            /\ UNCHANGED <<bg_coord, sampled>>
       ELSE /\ bg_coord' = call.bg_coord
            /\ UNCHANGED <<reiterate, num_iters>>
            /\ IF cutout_raises(call.bg_coord, call.size, field_shape)
               THEN Raise("NoOverlapError") /\ sampled' = sampled
               ELSE /\ sampled' = <<Cutout2D(call.bg_coord, call.size), call.bg_coord>>
                    /\ Goto("returned")
    /\ UNCHANGED <<pipeline, field_shape, sources, call, too_close, LT, light_outside>>

\* one pass of the while loop
goodss_iterate ==
    /\ pc = "while"
    /\ reiterate
    /\ num_iters < MaxIters
    /\ LET offset == call.size
           low == offset
           high == field_shape[1] - offset
       IN  IF low >= high
           THEN /\ Raise("ValueError")
                /\ UNCHANGED <<bg_coord, too_close, LT, light_outside, reiterate, num_iters>>
           ELSE \E x_c \in low .. high - 1, y_c \in low .. high - 1, ph \in Photometry :
                    LET coord == <<x_c, y_c>>
                        close == too_close_of(sources, coord, offset)
                        outside == Sub(ph.sum, ph.LT)
                    IN  /\ bg_coord' = coord
                        /\ IF cutout_raises(coord, offset, field_shape)
                           THEN /\ Goto("while")
                                /\ UNCHANGED <<too_close, LT, light_outside, reiterate, num_iters>>
                           ELSE /\ too_close' = close
                                /\ IF sources = {}
                                   THEN /\ Raise("ValueError")
                                        /\ UNCHANGED <<LT, light_outside, reiterate, num_iters>>
                                   ELSE /\ Goto("while")
                                        /\ IF nearest_too_far(sources, coord, offset)
                                           THEN UNCHANGED <<LT, light_outside, reiterate, num_iters>>
                                           ELSE /\ LT' = ph.LT
                                                /\ light_outside' = outside
                                                /\ IF photometry_rejects(ph.LT, outside)
                                                   THEN UNCHANGED <<reiterate, num_iters>>
                                                   ELSE /\ reiterate' = (close # {})
                                                        /\ num_iters' = num_iters + 1
    /\ UNCHANGED <<pipeline, field_shape, sources, call, sampled>>

\* after the loop: the cutout at the accepted coordinate is returned
goodss_return ==
    /\ pc = "while"
    /\ ~reiterate
    /\ sampled' = <<Cutout2D(bg_coord, call.size), bg_coord>>
    /\ Goto("returned")
    /\ UNCHANGED <<pipeline, field_shape, sources, call, bg_coord, too_close, LT,
                   light_outside, reiterate, num_iters>>

(***************************************************************************)
(* Inputs of the bounded model.                                            *)
(***************************************************************************)
\* an input image of the given shape: blank, a ramp 1, 2, 3, ... or a single
\* bright pixel at the centre
image_of(shape, kind) ==
    MkArr(shape[1], shape[2], LAMBDA i, j :
          IF kind = "zero" THEN R(0)
          ELSE IF kind = "ramp" THEN R(i * shape[2] + j + 1)
          ELSE IF <<i, j>> = <<shape[1] \div 2, shape[2] \div 2>> THEN R(4) ELSE R(0))

ImageShapes == (MinDim .. MaxDim) \X (MinDim .. MaxDim)

\* a supplied background of the given shape
background_of(shape) == MkArr(shape[1], shape[2], LAMBDA i, j : R((i + 2 * j) % 3))

BackgroundShapes == (1 .. MaxBg) \X (1 .. MaxBg)

\* point-spread functions: a 1 x 1 and a 1 x 3 kernel, not normalised
psf_point == MkArr(1, 1, LAMBDA i, j : R(2))

psf_line == MkArr(1, 3, LAMBDA i, j : R(1 + (j % 2)))

PSFs == {psf_point, psf_line}

Redshifts == 0 .. MaxZ

\* source and target frames: identical ones at every redshift, and targets
\* farther than a source at z >= 1, at equal or finer target pixel scale
FramePairs ==
    {<<ObservationFrame(z0, p0, 1), ObservationFrame(z1, 1, 1)>> :
        z0 \in Redshifts, z1 \in Redshifts, p0 \in {1, 2}}

IdenticalFrames(fp) == fp[1] = fp[2]

Configs(sizes) == {Config(on, size) : on \in SUBSET Toggles, size \in sizes}

stages ==
    \/ cutout_source
    \/ geometric_rebinning
    \/ apply_dimming
    \/ evolution_correction
    \/ convolve_psf
    \/ apply_shot_noise
    \/ add_background
    \/ crop_for_network
    \/ writeto

(***************************************************************************)
(* Spec: the constructor and writeto under every combination of toggles.   *)
(***************************************************************************)
Init ==
    \E img \in {image_of(<<2, 2>>, "zero"), image_of(<<2, 3>>, "ramp")},
       bg \in {None, background_of(<<3, 4>>)},
       fp \in {fp \in FramePairs : IdenticalFrames(fp) \/ (fp[1].redshift = 1 /\ fp[2].redshift = 2)},
       cfg \in Configs({MaxOutputSize}),
       p \in {psf_line} :
        Construct(img, p, bg, fp[1], fp[2], -20, Unset, cfg)

Next == stages

Spec == Init /\ [][Next]_vars

(***************************************************************************)
(* SpecBackground: the constructor over every image and background shape,  *)
(* with the stages before add_background switched off, and the calls of    *)
(* find_bg_section and find_bg_coords.                                     *)
(***************************************************************************)
\* the settings that differ in what add_background reads: bg_position only
\* without bg_centered, and both only with a background to add
BackgroundCases ==
    {bc \in ({None} \cup {background_of(b) : b \in BackgroundShapes})
              \X {Unset, <<0, 0>>, <<1, 1>>}
              \X SUBSET {"add_background", "bg_centered"} :
        /\ bc[2] # Unset => "bg_centered" \notin bc[3]
        /\ (bc[1] = None \/ "add_background" \notin bc[3]) =>
               (bc[2] = Unset /\ "bg_centered" \notin bc[3])}

InitBackground ==
    \/ \E sh \in ImageShapes, bc \in BackgroundCases, size \in 2 .. MaxOutputSize :
           Construct(image_of(sh, "ramp"), psf_point, bc[1], ObservationFrame(1, 1, 1),
                     ObservationFrame(1, 1, 1), -20, bc[2],
                     Config(bc[3] \cup {"fixed_grid"}, size))
    \/ /\ NoInstance
       /\ call \in {[fn |-> f, bg |-> background_of(b), img |-> image_of(sh, "ramp")] :
                      f \in {"find_bg_section", "find_bg_coords"},
                      b \in BackgroundShapes, sh \in ImageShapes}
       /\ field_shape = Unset
       /\ sources = Unset
       /\ bg_coord = Unset
       /\ too_close = Unset
       /\ LT = Unset
       /\ light_outside = Unset
       /\ reiterate = Unset
       /\ num_iters = Unset
       /\ sampled = Unset
       /\ err = "none"
       /\ pc = call.fn

NextBackground == stages \/ find_bg_section \/ find_bg_coords

SpecBackground == InitBackground /\ [][NextBackground]_vars

(***************************************************************************)
(* SpecSurvey: calls of find_bg_section_from_goodss.                       *)
(***************************************************************************)
\* the mosaic: square, or narrower than the window drawn from its rows
FieldShapes == {<<FieldRows, FieldRows>>, <<FieldRows, FieldRows \div 3>>}

\* where the catalogue may have sources
SourceSites(size) ==
    {<<size, size>>, <<size, size + 2>>, <<size, size + 3>>, <<size + 3, size + 3>>, <<0, 0>>}

InitSurvey ==
    /\ NoInstance
    /\ field_shape \in FieldShapes
    /\ sources \in SUBSET SourceSites(SurveySize)
    /\ call \in {[fn |-> "find_bg_section_from_goodss", size |-> SurveySize, bg_coord |-> c] :
                   c \in {Unset, <<SurveySize, SurveySize>>, <<FieldRows, 0>>}}
    /\ bg_coord = Unset
    /\ too_close = Unset
    /\ LT = Unset
    /\ light_outside = Unset
    /\ reiterate = Unset
    /\ num_iters = Unset
    /\ sampled = Unset
    /\ err = "none"
    /\ pc = "find_bg_section_from_goodss"

NextSurvey == goodss_enter \/ goodss_iterate \/ goodss_return

SpecSurvey == InitSurvey /\ [][NextSurvey]_vars

(***************************************************************************)
(* Properties of the ArtificialRedshift pipeline (Spec, SpecBackground).   *)
(***************************************************************************)
\* the toggle that gates each stage of __init__
StageToggle ==
    [cutout_source |-> "make_cutout", geometric_rebinning |-> "rebinning",
     apply_dimming |-> "dimming", evolution_correction |-> "evo",
     convolve_psf |-> "convolve_with_psf", apply_shot_noise |-> "shot_noise",
     add_background |-> "add_background"]

\* C1: a config-gated stage whose toggle is disabled is a no-op on `final` and
\* completes without error, for every configuration and input; for
\* geometric_rebinning with `rebinning` disabled this is claimed whatever
\* size_correction and fixed_grid are.
C1_DisabledStageIsNoOp ==
    [][\A st \in DOMAIN StageToggle :
           (pc = st /\ ~On(StageToggle[st])) => (final' = final /\ err' = "none" /\ pc' # "raised")]_vars

\* C2: crop_for_network(size) leaves `final` as it is; when `final` is larger
\* than size, final_crop is a size x size window of `final` centred on its
\* geometric centre (to the half pixel the parities allow); when `final` is at or
\* below size, final_crop is `final`.
C2_Crop ==
    [][pc = "crop_for_network" =>
          LET size == config.output_size
          IN  /\ final' = final
              /\ (Rows(final) > size /\ Cols(final) > size) =>
                    /\ final_crop'.shape = <<size, size>>
                    /\ \E r0 \in 0 .. Rows(final) - size, c0 \in 0 .. Cols(final) - size :
                           /\ Abs(2 * r0 + size - Rows(final)) <= 1
                           /\ Abs(2 * c0 + size - Cols(final)) <= 1
                           /\ final_crop' = Slice2(final, r0, r0 + size, c0, c0 + size)
              /\ (Rows(final) <= size /\ Cols(final) <= size) => final_crop' = final]_vars

\* the image is not strictly smaller than the background on both axes
NotSmaller(img, bg) == ~(Rows(img) < Rows(bg) /\ Cols(img) < Cols(bg))

\* C3: whenever the supplied background is smaller than the source image on an
\* axis, or of equal extent, IndexError('Galaxy Image larger than BG') is raised:
\* by add_background under every bg_centered and bg_position, and by
\* find_bg_section and find_bg_coords.
C3_OversizedBackground ==
    [][/\ (pc = "add_background" /\ On("add_background") /\ background # None
             /\ NotSmaller(final, background))
          => (err' = "IndexError" /\ pc' = "raised")
       /\ (pc \in {"find_bg_section", "find_bg_coords"} /\ NotSmaller(call.img, call.bg))
          => (err' = "IndexError" /\ pc' = "raised")]_vars

\* C4: with every toggle disabled and no background, for an image no larger
\* than the output size, construction raises no error and `final` and
\* final_crop equal the raw input image, pixel for pixel (an image of zero
\* total flux included).
C4_ToggleIndependence ==
    (pc \in {"constructed", "raised"} /\ config.on = {} /\ background_arg = None
        /\ Rows(image) <= config.output_size /\ Cols(image) <= config.output_size)
    => (pc = "constructed" /\ final = image /\ final_crop = image)

\* the values the written header holds under a key
Card(key) == {hdr.cards[k][2] : k \in {k \in 1 .. Len(hdr.cards) : hdr.cards[k][1] = key}}

\* C6: the written header holds REBIN exactly when rebinning is enabled,
\* DIM_FACT exactly when dimming is, EVO_FACT and EV_ALPHA exactly when evo is;
\* each value is the in-memory factor, REBIN being the combined factor
\* scale_factor x size_correction_factor applied to the image; and the five
\* history lines are there, with the source and target redshifts.
C6_Header ==
    pc = "written" =>
        /\ Card("REBIN") = IF On("rebinning")
                           THEN {Mul(scale_factor, size_correction_factor)} ELSE {}
        /\ Card("DIM_FACT") = IF On("dimming") THEN {dimming_factor} ELSE {}
        /\ Card("EVO_FACT") = IF On("evo") THEN {evo_factor} ELSE {}
        /\ Card("EV_ALPHA") = IF On("evo") THEN {evo_alpha} ELSE {}
        /\ Len(hdr.history) = 5
        /\ hdr.history[3] = <<"From z = ", initial_frame.redshift, " to z = ",
                              target_frame.redshift>>

\* C7: with rebinning enabled and source and target frames identical in
\* redshift (any z >= 0, z = 0 included) and pixel scale, the scale factor
\* geometric_rebinning computes is 1.
C7_RebinningIdentity ==
    (pc \notin {"cutout_source", "geometric_rebinning"} /\ On("rebinning")
        /\ initial_frame.redshift = target_frame.redshift
        /\ initial_frame.pixelscale = target_frame.pixelscale)
    => scale_factor = R(1)

\* C8: for a supplied background of shape (a, b) and `final` of shape (c, d)
\* with c < a and d < b, the section _find_bg_section returns has the shape
\* (c, d) and lies inside the background: centred, at a random offset, and at
\* a configured offset (one at which the window fits).
C8_BackgroundSection ==
    [][(pc = "add_background" /\ On("add_background") /\ background # None
          /\ ~NotSmaller(final, background)
          /\ (bg_position # Unset =>
                 /\ bg_position[1] + Rows(final) <= Rows(background)
                 /\ bg_position[2] + Cols(final) <= Cols(background)))
       => /\ background'.shape = final.shape
          /\ \E x \in 0 .. Rows(background) - Rows(final),
                y \in 0 .. Cols(background) - Cols(final) :
                 background' = Slice2(background, x, x + Rows(final), y, y + Cols(final))]_vars

\* C10: when add_background composites `final` of shape (r, c) into a canvas at
\* least as large on both axes, the window [offset_min, offset_max) has on each
\* axis the extent of `final`, lies inside the canvas with margins that differ
\* by at most one pixel, and the insertion succeeds, adding each pixel of
\* `final` to one pixel of the canvas.
C10_CompositeInsertion ==
    [][(pc = "add_background" /\ On("add_background") /\ offset_min' \in Int
          /\ Rows(background') >= Rows(final) /\ Cols(background') >= Cols(final))
       => /\ offset_max' - offset_min' = Rows(final)
          /\ offset_max' - offset_min' = Cols(final)
          /\ offset_min' >= 0
          /\ offset_max' <= Rows(background')
          /\ offset_max' <= Cols(background')
          /\ Abs(offset_min' - (Rows(background') - offset_max')) <= 1
          /\ Abs(offset_min' - (Cols(background') - offset_max')) <= 1
          /\ err' = "none"
          /\ final' = MkArr(Rows(background'), Cols(background'), LAMBDA i, j :
                          IF /\ i >= offset_min' /\ i < offset_max'
                             /\ j >= offset_min' /\ j < offset_max'
                          THEN Add(background'.pix[<<i, j>>],
                                   final.pix[<<i - offset_min', j - offset_min'>>])
                          ELSE background'.pix[<<i, j>>])]_vars

(***************************************************************************)
(* Properties of find_bg_section_from_goodss (SpecSurvey).                 *)
(***************************************************************************)
Searching == call.fn = "find_bg_section_from_goodss" /\ call.bg_coord = Unset

\* a source at size/2.5 pixels or less from the coordinate
SourceWithin2_5(coord) ==
    \E s \in sources : 25 * Dist2(coord, s) <= 4 * call.size * call.size

\* C5: survey sampler rejection discipline.  While find_bg_section_from_goodss
\* searches, a candidate with a source of the working subset at size/2.5 pixels
\* or less (a source at the candidate itself included) leaves the loop
\* reiterating, so another draw is made; the coordinate the search returns has
\* no source of the working subset within size/2.5 pixels.
C5_RejectionDiscipline ==
    Searching =>
        /\ (pc = "while" /\ bg_coord # Unset /\ SourceWithin2_5(bg_coord)) => reiterate = TRUE
        /\ pc = "returned" => ~SourceWithin2_5(sampled[2])

\* C5 witness: the search returned after at least one candidate that passed the
\* photometry was turned down for a source too close.
C5_Witness ==
    /\ Searching
    /\ pc = "returned"
    /\ num_iters >= 2
    /\ sources # {}

\* C9 as claimed: every coordinate the search returns has an aperture sum with
\* 0 < LT <= 20 and LT <= cutout sum - LT (non-positive sums are rejected).
C9_Original ==
    (Searching /\ pc = "returned") =>
        /\ Less(R(0), LT)
        /\ Leq(LT, R(20))
        /\ Leq(LT, light_outside)

\* C9 as amended: a candidate whose aperture sum LT is exactly 0, exceeds 20 or
\* exceeds the light outside the aperture leaves the loop reiterating and is
\* never returned: for every coordinate the search returns, none of LT = 0,
\* LT > 20, LT > cutout sum - LT holds.  (A negative LT is not rejected.)
C9_AperturePhotometry ==
    Searching =>
        /\ (pc = "while" /\ LT # Unset
              /\ (LT = R(0) \/ Less(R(20), LT) \/ Less(light_outside, LT)))
           => reiterate = TRUE
        /\ pc = "returned" =>
              /\ LT # R(0)
              /\ ~Less(R(20), LT)
              /\ ~Less(light_outside, LT)

\* C9 witness: the search returned a coordinate whose aperture sum is negative.
C9_Witness ==
    /\ Searching
    /\ pc = "returned"
    /\ Less(LT, R(0))

====
